---- MODULE Spec2Model ----
(***************************************************************************)
(* Model of lib/wasmtime_linker/interface_wasmtime_linker.h:               *)
(*   - the typed value converter (extractValue, createResultVal),          *)
(*   - the generated host callback (generateCallbackImpl),                 *)
(*   - the export registry (fillInterfaceExportInfo,                       *)
(*     generateLinkerExportInfo) with the storage its raw views point to.  *)
(*                                                                         *)
(* Payloads are kept at their width as tuples of 16-bit limbs, most        *)
(* significant first: 32-bit values have 2 limbs, 64-bit values 4.  A      *)
(* signed value carries its sign in the top limb (-2^15 .. 2^15-1), an     *)
(* unsigned value or a float bit pattern has a top limb in 0 .. 2^16-1.    *)
(***************************************************************************)
EXTENDS Integers, Sequences, FiniteSets, TLC

VARIABLES
    \* ---- converter exercise
    convT,        \* native type T the conversion is instantiated with
    convHist,     \* the conversions applied so far, oldest first
    \* ---- one generated callback and one invocation of it
    cbMethod,     \* the method the callback was generated for
    args,         \* input span
    results,      \* output span
    calls,        \* invocations of the host method, oldest first
    outcome,      \* what the callback returned ("none" before it returns)
    \* ---- the export registry
    ifaceList,    \* the Interfaces... pack of LinkerExportInfoRegister
    pc,           \* position inside generateLinkerExportInfo
    index,        \* local `index` of generateLinkerExportInfo
    pending,      \* pack elements of Interfaces... not yet expanded
    cur,          \* the fill in progress: interface type and array slot
    function_index, \* local `function_index` of fillInterfaceExportInfo
    enumerated,   \* member functions iteratorMemberFunctions has yielded
    nameInit,     \* per interface type: static interface_name constructed
    function_name_array,  \* per interface type: the static std::string array
    function_info_array,  \* per interface type: the static descriptor array
    m_interface_export_info_array, \* static array of interface descriptors
    m_linker_export_info, \* static LinkerExportInfo
    heap,         \* heap blocks holding long string contents
    ncalls,       \* entry-point calls that have returned
    views,        \* raw name views the loader copied out of returned registries
    firstContent, \* content of the registry when the first call returned
    writesAfterFirst \* TRUE once storage was written after the first return

convVars == <<convT, convHist>>
callVars == <<cbMethod, args, results, calls, outcome>>
regVars  == <<ifaceList, pc, index, pending, cur, function_index, enumerated,
              nameInit,
              function_name_array, function_info_array,
              m_interface_export_info_array, m_linker_export_info, heap,
              ncalls, views, firstContent, writesAfterFirst>>
vars == <<convVars, callVars, regVars>>

----------------------------------------------------------------------------
(* Bounds *)

MaxArgs == 3
MaxResults == 1
MaxConvSteps == 3
MaxInterfaces == 2
MaxCalls == 2
MaxAddr == 3

----------------------------------------------------------------------------
(* Typed values *)

LimbBase == 2^16
SignLimb == 2^15

\* The scalar types the converter has a branch for.
Types == {"s32", "s64", "u64", "f32", "f64"}
\* Native parameter / return types a method may declare; "bool" stands for
\* any type the converter has no branch for.
NativeTypes == Types \cup {"bool"}
RetTypes == NativeTypes \cup {"void"}
\* Tags a wasmtime::component::Val may carry.
Tags == Types \cup {"bool"}

Zero32 == <<0, 0>>
Zero64 == <<0, 0, 0, 0>>

\* T{} : the value-initialised native value.
ZeroOf(T) ==
    CASE T \in {"s32", "f32"} -> Zero32
      [] T \in {"s64", "u64", "f64"} -> Zero64
      [] OTHER -> <<0>>

\* static_cast<int64_t>(uint64_t): the value modulo 2^64, read as signed.
U64ToS64(u) ==
    <<IF u[1] >= SignLimb THEN u[1] - LimbBase ELSE u[1], u[2], u[3], u[4]>>

Val(tag, v) == [tag |-> tag, v |-> v]

extractValueNoTagCheck(T, val) ==
    IF T \in Types /\ Len(val.v) = Len(ZeroOf(T)) THEN val.v ELSE ZeroOf(T)

extractValueDropsU64(T, val) ==
    CASE T = "s32" -> IF val.tag = "s32" THEN val.v ELSE ZeroOf(T)
      [] T = "s64" -> IF val.tag = "s64" THEN val.v
                      ELSE IF val.tag = "u64" THEN U64ToS64(val.v)
                      ELSE ZeroOf(T)
      [] T = "f32" -> IF val.tag = "f32" THEN val.v ELSE ZeroOf(T)
      [] T = "f64" -> IF val.tag = "f64" THEN val.v ELSE ZeroOf(T)
      [] OTHER -> ZeroOf(T)

\* extractValue<T>(val, index)
extractValue(T, val) ==
    CASE T = "s32" -> IF val.tag = "s32" THEN val.v ELSE ZeroOf(T)
      [] T = "s64" -> IF val.tag = "s64" THEN val.v
                      ELSE IF val.tag = "u64" THEN U64ToS64(val.v)
                      ELSE ZeroOf(T)
      [] T = "u64" -> IF val.tag = "u64" THEN val.v ELSE ZeroOf(T)
      [] T = "f32" -> IF val.tag = "f32" THEN val.v ELSE ZeroOf(T)
      [] T = "f64" -> IF val.tag = "f64" THEN val.v ELSE ZeroOf(T)
      [] OTHER -> ZeroOf(T)

\* createResultVal<Ret>(result)
createResultVal(Ret, result) ==
    CASE Ret = "s32" -> Val("s32", result)
      [] Ret = "s64" -> Val("s64", result)
      [] Ret = "u64" -> Val("u64", result)
      [] Ret = "f32" -> Val("f32", result)
      [] Ret = "f64" -> Val("f64", result)
      [] OTHER -> Val("s32", Zero32)

\* Sample native values of each type: zero, small, and the extremes of the
\* width (sign bit set, all ones).
NativeVals(T) ==
    CASE T = "s32" -> {Zero32, <<0, 7>>, <<-1, 65535>>, <<-32768, 0>>,
                       <<32767, 65535>>}
      [] T = "s64" -> {Zero64, <<0, 0, 0, 5>>, <<-1, 65535, 65535, 65535>>,
                       <<-32768, 0, 0, 0>>, <<0, 1, 0, 0>>}
      [] T = "u64" -> {Zero64, <<0, 0, 0, 5>>, <<65535, 65535, 65535, 65535>>,
                       <<32768, 0, 0, 1>>, <<0, 1, 0, 0>>}
      [] T = "f32" -> {Zero32, <<16320, 0>>, <<32768, 0>>, <<32704, 0>>}
      [] T = "f64" -> {Zero64, <<16388, 0, 0, 0>>, <<32768, 0, 0, 0>>,
                       <<32760, 0, 0, 0>>}
      [] OTHER -> {<<0>>, <<1>>}

\* Every typed value over the sample payloads.
Vals == UNION {{Val(t, v) : v \in NativeVals(t)} : t \in Tags}

\* Sequences over S of length at most n.
SeqUpTo(S, n) == UNION {[1..k -> S] : k \in 0..n}

----------------------------------------------------------------------------
(* Converter exercise: extractValue / createResultVal applied in turn *)

ConvStep(op, native, val) == [op |-> op, native |-> native, val |-> val]

LastConv == convHist[Len(convHist)]

\* extractValue<convT> applied to an arbitrary typed value.
ConvExtractInput ==
    /\ convHist = <<>>
    /\ \E val \in Vals :
         convHist' = <<ConvStep("extract", extractValue(convT, val), val)>>
    /\ UNCHANGED convT

\* createResultVal<convT> applied to an arbitrary value of type convT.
ConvWrapInput ==
    /\ convHist = <<>>
    /\ \E v \in NativeVals(convT) :
         convHist' = <<ConvStep("wrap", v, createResultVal(convT, v))>>
    /\ UNCHANGED convT

\* extractValue<convT> applied to the typed value the last wrap produced.
ConvExtract ==
    /\ convHist # <<>>
    /\ Len(convHist) < MaxConvSteps
    /\ LastConv.op = "wrap"
    /\ convHist' = Append(convHist,
          ConvStep("extract", extractValue(convT, LastConv.val), LastConv.val))
    /\ UNCHANGED convT

\* createResultVal<convT> applied to the native value the last extract gave.
ConvWrap ==
    /\ convHist # <<>>
    /\ Len(convHist) < MaxConvSteps
    /\ LastConv.op = "extract"
    /\ convHist' = Append(convHist,
          ConvStep("wrap", LastConv.native,
                   createResultVal(convT, LastConv.native)))
    /\ UNCHANGED convT

----------------------------------------------------------------------------
(* Host methods and the generated callback *)

Method(name, params, ret) == [name |-> name, params |-> params, ret |-> ret]

\* Member functions of the host interfaces (what the interface metadata
\* enumerates as func_ptr): every supported parameter and return type occurs.
Ping     == Method("Ping", <<>>, "void")
GetSize  == Method("GetSize", <<"s32">>, "u64")
Seek     == Method("Seek", <<"s64", "f32">>, "f64")
Tick     == Method("Tick", <<"u64">>, "s32")
Scale    == Method("Scale", <<"f64">>, "f32")
Offset   == Method("Offset", <<"s32", "s64">>, "s64")
IsOpen   == Method("IsOpen", <<"bool">>, "bool")
SetTitle == Method("SetTitle", <<"s32">>, "void")

Methods == {Ping, GetSize, Seek, Tick, Scale, Offset, IsOpen, SetTitle}

\* generateCallback(func_ptr): the closure captures the method pointer; the
\* parameter pack and return type are those of its signature.
generateCallback(func_ptr) == [func_ptr |-> func_ptr]

\* Typed values a guest passes in an input span.
ArgVals == {Val("s64", <<0, 0, 0, 5>>), Val("s64", Zero64),
            Val("u64", <<32768, 0, 0, 1>>), Val("u64", Zero64),
            Val("s32", <<0, 7>>), Val("f32", <<16320, 0>>),
            Val("f64", <<16388, 0, 0, 0>>), Val("bool", <<1>>)}

\* What an output slot holds before the callback runs.
InitSlot == Val("bool", <<0>>)

\* args[i]; a read past the end of the span is undefined and yields junk.
SpanAt(span, i, junk) == IF i \in DOMAIN span THEN span[i] ELSE junk

\* 1 + sizeof...(Args)
RequiredInputs(cb) == 1 + Len(cb.func_ptr.params)

InsufficientArgumentsNoHandle(cb, span) == Len(span) < Len(cb.func_ptr.params)

\* args.size() < 1 + sizeof...(Args)
InsufficientArguments(cb, span) == Len(span) < RequiredInputs(cb)

\* extractValue<int64_t>(args[0], 0)
instance_ptr_value(span, junk) == extractValue("s64", SpanAt(span, 1, junk))

InvalidInstanceNever(handle) == FALSE

\* !reinterpret_cast<Class*>(instance_ptr_value)
InvalidInstance(handle) == handle = Zero64

ExtractedArgsReversed(cb, span, junk) ==
    LET n == Len(cb.func_ptr.params) IN
    [i \in 1..n |->
        extractValue(cb.func_ptr.params[i], SpanAt(span, (n - i) + 2, junk))]

\* extractValue<Args>(args[Is + 1], Is + 1)...
ExtractedArgs(cb, span, junk) ==
    [i \in 1..Len(cb.func_ptr.params) |->
        extractValue(cb.func_ptr.params[i], SpanAt(span, i + 1, junk))]

\* One invocation (instance->*func_ptr)(...) as the host sees it.
Invocation(cb, handle, actuals, result) ==
    [method |-> cb.func_ptr.name, instance |-> handle, args |-> actuals,
     result |-> result]

\* if (results.size() > 0) results[0] = createResultVal(result);
StoreResult(cb, out, result) ==
    IF Len(out) > 0
    THEN [out EXCEPT ![1] = createResultVal(cb.func_ptr.ret, result)]
    ELSE out

\* The closure returned by generateCallbackImpl, invoked on (args, results).
HostCallback ==
    /\ outcome = "none"
    /\ LET cb == generateCallback(cbMethod) IN
       \E junk \in ArgVals :
         \/ /\ InsufficientArguments(cb, args)
            /\ outcome' = "ok"
            /\ UNCHANGED <<calls, results>>
         \/ /\ ~InsufficientArguments(cb, args)
            /\ InvalidInstance(instance_ptr_value(args, junk))
            /\ outcome' = "ok"
            /\ UNCHANGED <<calls, results>>
         \/ /\ ~InsufficientArguments(cb, args)
            /\ ~InvalidInstance(instance_ptr_value(args, junk))
            /\ cbMethod.ret = "void"
            /\ calls' = Append(calls,
                  Invocation(cb, instance_ptr_value(args, junk),
                             ExtractedArgs(cb, args, junk), <<>>))
            /\ outcome' = "ok"
            /\ UNCHANGED results
         \/ /\ ~InsufficientArguments(cb, args)
            /\ ~InvalidInstance(instance_ptr_value(args, junk))
            /\ cbMethod.ret # "void"
            /\ \E result \in NativeVals(cbMethod.ret) :
                 /\ calls' = Append(calls,
                       Invocation(cb, instance_ptr_value(args, junk),
                                  ExtractedArgs(cb, args, junk), result))
                 /\ results' = StoreResult(cb, results, result)
            /\ outcome' = "ok"
    /\ UNCHANGED <<cbMethod, args>>


----------------------------------------------------------------------------
(* Interface metadata (Arieo::Base::InterfaceInfo<T>) *)

Function(func_ptr, wit_func_name, function_id, function_checksum) ==
    [func_ptr |-> func_ptr, func_name |-> func_ptr.name,
     wit_func_name |-> wit_func_name, function_id |-> function_id,
     function_checksum |-> function_checksum]

InterfaceTypes == {"IWindow", "IFile", "IMarker"}

\* What InterfaceInfo<T> reports: export name, id, checksum, the member
\* functions in enumeration order, and the hash of typeid(T).name().
InterfaceInfo(T) ==
    CASE T = "IWindow" ->
           [name |-> "arieo:window/i-window", id |-> 11, checksum |-> 101,
            type_hash |-> 1001,
            functions |-> <<Function(GetSize, "get-size", 1, 51),
                            Function(SetTitle, "set-window-title-text", 2, 52)>>]
      [] T = "IFile" ->
           [name |-> "arieo:file/i-file", id |-> 12, checksum |-> 102,
            type_hash |-> 1002,
            functions |-> <<Function(Seek, "seek-to-absolute-offset", 1, 61)>>]
      [] OTHER ->
           [name |-> "arieo:core/i-marker", id |-> 13, checksum |-> 103,
            type_hash |-> 1003,
            functions |-> <<>>]

\* InterfaceInfo<T>::getMemberFunctionCount()
getMemberFunctionCount(T) == Len(InterfaceInfo(T).functions)

----------------------------------------------------------------------------
(* Storage: pointers, std::string objects, heap blocks *)

\* Longest string a std::string keeps in its own local buffer (libstdc++).
SsoCapacity == 15

Ptr(kind, t, i) == [kind |-> kind, t |-> t, i |-> i]
Null == Ptr("null", "", 0)
\* a heap block
HeapPtr(a) == Ptr("heap", "", a)
\* the local buffer of function_name_array<T>[i]
SsoPtr(T, i) == Ptr("sso", T, i)
\* interface_name.data() of fillInterfaceExportInfo<T>
INamePtr(T) == Ptr("iname", T, 0)
\* function_info_array.data() of fillInterfaceExportInfo<T>
FnArrPtr(T) == Ptr("fnarr", T, 0)
\* m_interface_export_info_array.data()
IfArrPtr == Ptr("ifarr", "", 0)
\* &m_linker_export_info
RegPtr == Ptr("reg", "", 0)

Addrs == 1..MaxAddr

\* A default-constructed std::string: empty, in its local buffer.
EmptyString == [local |-> TRUE, addr |-> 0, sso |-> ""]

\* A heap block that was never allocated.
FreeBlock == [live |-> FALSE, text |-> ""]

\* A default-constructed InterfaceFunctionExportInfo / InterfaceExportInfo.
EmptyFunctionInfo ==
    [m_function_name |-> Null, m_function_id |-> 0, m_function_checksum |-> 0,
     m_host_callback |-> Null]

EmptyInterfaceInfo ==
    [m_interface_name |-> Null, m_interaface_id |-> 0,
     m_interface_checksum |-> 0, m_interface_type_hash |-> 0,
     m_member_function_array |-> Null, m_member_function_count |-> 0]

\* std::string::data() of function_name_array<T>[i]
StringData(T, i, str) == IF str.local THEN SsoPtr(T, i) ELSE HeapPtr(str.addr)

\* Whether a pointer still refers to storage that exists.
Valid(p) ==
    CASE p.kind = "null" -> FALSE
      [] p.kind = "heap" -> heap[p.i].live
      [] p.kind = "iname" -> nameInit[p.t]
      [] OTHER -> TRUE

\* The characters a valid name pointer refers to.
Deref(p) ==
    CASE p.kind = "heap" -> heap[p.i].text
      [] p.kind = "sso" -> function_name_array[p.t][p.i].sso
      [] p.kind = "iname" -> InterfaceInfo(p.t).name
      [] OTHER -> ""

AssignedTextAppend(old, new) == old \o new

\* The value function_name_array[i] holds after `= std::string(wit_func_name)`.
AssignedText(old, new) == new

\* Text currently held by a string object.
StringText(str) == IF str.local THEN str.sso ELSE heap[str.addr].text

\* function_name_array[i] = std::string(text): the temporary takes heap block
\* `a` when text does not fit the local buffer; move assignment copies a local
\* temporary into the target's buffer and otherwise adopts the temporary's
\* block, the target's former block going to the temporary, whose destructor
\* releases it.  Yields the new string object and the new heap.
MoveAssign(str, text, a) ==
    IF Len(text) <= SsoCapacity
    THEN IF str.local
         THEN [str |-> [str EXCEPT !.sso = text], heap |-> heap]
         ELSE [str |-> str,
               heap |-> [heap EXCEPT ![str.addr].text = text]]
    ELSE [str |-> [local |-> FALSE, addr |-> a, sso |-> ""],
          heap |-> IF str.local
                   THEN [heap EXCEPT ![a] = [live |-> TRUE, text |-> text]]
                   ELSE [heap EXCEPT ![a] = [live |-> TRUE, text |-> text],
                                     ![str.addr].live = FALSE]]


----------------------------------------------------------------------------
(* The export registry: generateLinkerExportInfo and fillInterfaceExportInfo *)

K == Len(ifaceList)

NoFill == [t |-> "", slot |-> 0]

\* A storage write made once a call has already returned.
NoteWrite == writesAfterFirst' = (writesAfterFirst \/ ncalls >= 1)

\* What the loader reads through the returned registry pointer.
FunctionContent(fi) ==
    [name |-> Deref(fi.m_function_name), id |-> fi.m_function_id,
     checksum |-> fi.m_function_checksum]

InterfaceContent(d) ==
    [name |-> Deref(d.m_interface_name), id |-> d.m_interaface_id,
     checksum |-> d.m_interface_checksum,
     type_hash |-> d.m_interface_type_hash,
     function_count |-> d.m_member_function_count,
     functions |->
        IF d.m_member_function_array.kind = "fnarr"
        THEN [j \in 1..d.m_member_function_count |->
                FunctionContent(
                    function_info_array[d.m_member_function_array.t][j])]
        ELSE <<>>]

RegistryContent ==
    [interface_count |-> m_linker_export_info.m_interface_count,
     interfaces |->
        [i \in 1..m_linker_export_info.m_interface_count |->
            InterfaceContent(m_interface_export_info_array[i])]]

\* Every name pointer reachable from the registry, with the text it names.
View(p) == [ptr |-> p, text |-> Deref(p)]

NameViews ==
    {View(m_interface_export_info_array[i].m_interface_name) :
        i \in 1..m_linker_export_info.m_interface_count}
    \cup
    UNION {{View(function_info_array[ifaceList[i]][j].m_function_name) :
                j \in 1..m_interface_export_info_array[i].m_member_function_count} :
           i \in 1..m_linker_export_info.m_interface_count}

\* size_t index = 0;
BeginCall ==
    /\ pc = "idle"
    /\ ncalls < MaxCalls
    /\ pc' = "expand"
    /\ index' = 0
    /\ pending' = ifaceList
    /\ UNCHANGED <<ifaceList, cur, function_index, enumerated, nameInit,
                   function_name_array, function_info_array,
                   m_interface_export_info_array, m_linker_export_info, heap,
                   ncalls, views, firstContent, writesAfterFirst>>

NextIndexStuck(i) == i

\* index++
NextIndex(i) == i + 1

\* fillInterfaceExportInfo(m_interface_export_info_array[index++]) for the next
\* pack element: the statics are constructed on the first entry only, and
\* `size_t function_index = 0` runs on every entry.
FillBegin ==
    /\ pc = "expand"
    /\ pending # <<>>
    /\ cur' = [t |-> Head(pending), slot |-> index + 1]
    /\ index' = NextIndex(index)
    /\ pending' = Tail(pending)
    /\ nameInit' = [nameInit EXCEPT ![Head(pending)] = TRUE]
    /\ function_index' = 0
    /\ enumerated' = 0
    /\ pc' = "enumerate"
    /\ UNCHANGED <<ifaceList, function_name_array, function_info_array,
                   m_interface_export_info_array, m_linker_export_info, heap,
                   ncalls, views, firstContent, writesAfterFirst>>

NextFunctionIndexStuck(i) == i

\* ++function_index
NextFunctionIndex(i) == i + 1

\* The lambda handed to iteratorMemberFunctions, run for the next member
\* function the iterator yields.
FillFunction ==
    /\ pc = "enumerate"
    /\ enumerated < Len(InterfaceInfo(cur.t).functions)
    /\ LET T == cur.t
           f == InterfaceInfo(T).functions[enumerated + 1]
           i == function_index + 1
           old == function_name_array[T][i]
           text == AssignedText(StringText(old), f.wit_func_name)
       IN
       \E a \in (IF Len(text) <= SsoCapacity THEN {0}
                 ELSE {b \in Addrs : ~heap[b].live}) :
          LET r == MoveAssign(old, text, a) IN
          /\ heap' = r.heap
          /\ function_name_array' =
                [function_name_array EXCEPT ![T][i] = r.str]
          /\ function_info_array' =
                [function_info_array EXCEPT ![T][i] =
                    [m_function_name |-> StringData(T, i, r.str),
                     m_function_id |-> f.function_id,
                     m_function_checksum |-> f.function_checksum,
                     m_host_callback |-> generateCallback(f.func_ptr)]]
    /\ function_index' = NextFunctionIndex(function_index)
    /\ enumerated' = enumerated + 1
    /\ NoteWrite
    /\ UNCHANGED <<ifaceList, pc, index, pending, cur, nameInit,
                   m_interface_export_info_array, m_linker_export_info,
                   ncalls, views, firstContent>>

\* The tail of fillInterfaceExportInfo: the descriptor fields are written
\* through the reference the caller passed.
FillFinish ==
    /\ pc = "enumerate"
    /\ enumerated = Len(InterfaceInfo(cur.t).functions)
    /\ m_interface_export_info_array' =
          [m_interface_export_info_array EXCEPT ![cur.slot] =
              [m_interface_name |-> INamePtr(cur.t),
               m_interaface_id |-> InterfaceInfo(cur.t).id,
               m_interface_checksum |-> InterfaceInfo(cur.t).checksum,
               m_interface_type_hash |-> InterfaceInfo(cur.t).type_hash,
               m_member_function_array |-> FnArrPtr(cur.t),
               m_member_function_count |-> getMemberFunctionCount(cur.t)]]
    /\ cur' = NoFill
    /\ pc' = "expand"
    /\ NoteWrite
    /\ UNCHANGED <<ifaceList, index, pending, function_index, enumerated,
                   nameInit, function_name_array, function_info_array,
                   m_linker_export_info, heap, ncalls, views, firstContent>>

\* The tail of generateLinkerExportInfo; the loader receives
\* &m_linker_export_info and copies out the name views it finds.
Return ==
    /\ pc = "expand"
    /\ pending = <<>>
    /\ m_linker_export_info' =
          [m_interface_array |-> IfArrPtr, m_interface_count |-> K]
    /\ ncalls' = ncalls + 1
    /\ pc' = "idle"
    /\ NoteWrite
    /\ UNCHANGED <<ifaceList, index, pending, cur, function_index, enumerated,
                   nameInit, function_name_array, function_info_array,
                   m_interface_export_info_array, heap>>
    /\ views' = views \cup NameViews'
    /\ firstContent' = IF ncalls = 0 THEN RegistryContent' ELSE firstContent

----------------------------------------------------------------------------
(* Specifications *)

ConvIdle == convT = "s32" /\ convHist = <<>>

CallIdle ==
    /\ cbMethod = Ping
    /\ args = <<>>
    /\ results = <<>>
    /\ calls = <<>>
    /\ outcome = "ok"

RegIdle ==
    /\ ifaceList = <<>>
    /\ pc = "off"
    /\ index = 0
    /\ pending = <<>>
    /\ cur = NoFill
    /\ function_index = 0
    /\ enumerated = 0
    /\ nameInit = [T \in InterfaceTypes |-> FALSE]
    /\ function_name_array = [T \in InterfaceTypes |-> <<>>]
    /\ function_info_array = [T \in InterfaceTypes |-> <<>>]
    /\ m_interface_export_info_array = <<>>
    /\ m_linker_export_info = [m_interface_array |-> Null, m_interface_count |-> 0]
    /\ heap = [a \in Addrs |-> FreeBlock]
    /\ ncalls = 0
    /\ views = {}
    /\ firstContent = <<>>
    /\ writesAfterFirst = FALSE

\* The process before the first entry-point call: every static is in its
\* default-constructed state.
RegInit ==
    /\ ifaceList \in SeqUpTo(InterfaceTypes, MaxInterfaces)
    /\ pc = "idle"
    /\ index = 0
    /\ pending = <<>>
    /\ cur = NoFill
    /\ function_index = 0
    /\ enumerated = 0
    /\ nameInit = [T \in InterfaceTypes |-> FALSE]
    /\ function_name_array =
          [T \in InterfaceTypes |->
              [i \in 1..getMemberFunctionCount(T) |-> EmptyString]]
    /\ function_info_array =
          [T \in InterfaceTypes |->
              [i \in 1..getMemberFunctionCount(T) |-> EmptyFunctionInfo]]
    /\ m_interface_export_info_array =
          [i \in 1..Len(ifaceList) |-> EmptyInterfaceInfo]
    /\ m_linker_export_info = [m_interface_array |-> Null, m_interface_count |-> 0]
    /\ heap = [a \in Addrs |-> FreeBlock]
    /\ ncalls = 0
    /\ views = {}
    /\ firstContent = <<>>
    /\ writesAfterFirst = FALSE

\* The registry: entry-point calls, one after the other.
Init == RegInit /\ ConvIdle /\ CallIdle

Next ==
    \/ BeginCall /\ UNCHANGED <<convVars, callVars>>
    \/ FillBegin /\ UNCHANGED <<convVars, callVars>>
    \/ FillFunction /\ UNCHANGED <<convVars, callVars>>
    \/ FillFinish /\ UNCHANGED <<convVars, callVars>>
    \/ Return /\ UNCHANGED <<convVars, callVars>>

Spec == Init /\ [][Next]_vars

\* One generated callback, invoked once on an arbitrary input / output span.
CallInit ==
    /\ cbMethod \in Methods
    /\ args \in SeqUpTo(ArgVals, MaxArgs)
    /\ results \in {[i \in 1..k |-> InitSlot] : k \in 0..MaxResults}
    /\ calls = <<>>
    /\ outcome = "none"
    /\ ConvIdle
    /\ RegIdle

CallNext == HostCallback /\ UNCHANGED <<convVars, regVars>>

SpecCall == CallInit /\ [][CallNext]_vars

\* The converter applied to arbitrary values under every native type.
ConvInit ==
    /\ convT \in NativeTypes
    /\ convHist = <<>>
    /\ CallIdle
    /\ RegIdle

ConvNext ==
    \/ ConvExtractInput /\ UNCHANGED <<callVars, regVars>>
    \/ ConvWrapInput /\ UNCHANGED <<callVars, regVars>>
    \/ ConvExtract /\ UNCHANGED <<callVars, regVars>>
    \/ ConvWrap /\ UNCHANGED <<callVars, regVars>>

SpecConv == ConvInit /\ [][ConvNext]_vars


----------------------------------------------------------------------------
(* Properties of the generated callback (checked under SpecCall) *)

\* input[0] read as a 64-bit integer: a signed or unsigned 64-bit payload
\* is taken modulo 2^64 as signed, any other tag reads as zero.
HandleOf(val) ==
    IF val.tag = "s64" THEN val.v
    ELSE IF val.tag = "u64"
         THEN <<IF val.v[1] < SignLimb THEN val.v[1] ELSE val.v[1] - LimbBase,
                val.v[2], val.v[3], val.v[4]>>
         ELSE Zero64

ParamCount == Len(cbMethod.params)

Returned == outcome # "none"

OutputsUntouched == \A j \in 1..Len(results) : results[j] = InitSlot

\* C1: a callback invoked with fewer than 1 + n inputs (the empty span
\* included) never invokes the host method, writes no output slot and returns
\* success.
C1_ArityMismatchIsNoOp ==
    (Returned /\ Len(args) < 1 + ParamCount) =>
        /\ calls = <<>>
        /\ OutputsUntouched
        /\ outcome = "ok"

\* C1 witness: a two-parameter method called with a live handle, one
\* argument short, and an output slot to write to.
C1_Witness ==
    /\ Returned
    /\ cbMethod = Seek
    /\ Len(args) = 2
    /\ HandleOf(args[1]) # Zero64
    /\ Len(results) = 1

\* C2: a callback invoked with at least 1 + n inputs whose input[0] reads as
\* a zero handle never invokes the host method, writes no output slot and
\* returns success.
C2_ZeroHandleIsNoOp ==
    (Returned /\ Len(args) >= 1 + ParamCount /\ HandleOf(args[1]) = Zero64) =>
        /\ calls = <<>>
        /\ OutputsUntouched
        /\ outcome = "ok"

\* C2 witness: a value-returning method called with enough inputs, a zero
\* s64 handle and an output slot.
C2_Witness ==
    /\ Returned
    /\ cbMethod = GetSize
    /\ Len(args) = 2
    /\ args[1] = Val("s64", Zero64)
    /\ Len(results) = 1

\* C3: with at least 1 + n inputs and a non-zero handle the method is invoked
\* exactly once on the instance the handle names, argument i being
\* extract<T_i>(input[i]) in declared order; a returned value is wrapped into
\* output[0] when a slot exists (u64-tagged for an unsigned 64-bit result),
\* no slot changes for a void method or an empty output span, and the
\* callback returns success.
C3_ValidCallInvokesOnce ==
    (Returned /\ Len(args) >= 1 + ParamCount /\ HandleOf(args[1]) # Zero64) =>
        /\ Len(calls) = 1
        /\ calls[1].method = cbMethod.name
        /\ calls[1].instance = HandleOf(args[1])
        /\ Len(calls[1].args) = ParamCount
        /\ \A i \in 1..ParamCount :
              calls[1].args[i] = extractValue(cbMethod.params[i], args[i + 1])
        /\ (cbMethod.ret # "void" /\ Len(results) >= 1) =>
              /\ results[1] = createResultVal(cbMethod.ret, calls[1].result)
              /\ cbMethod.ret = "u64" =>
                    results[1] = Val("u64", calls[1].result)
              /\ \A j \in 2..Len(results) : results[j] = InitSlot
        /\ (cbMethod.ret = "void" \/ Len(results) = 0) => OutputsUntouched
        /\ outcome = "ok"

\* C3 witness: the one-parameter method returning u64, called with
\* [handle, s32(7)] and one output slot, received 7 and left a u64 result.
C3_Witness ==
    /\ Returned
    /\ cbMethod = GetSize
    /\ args = <<Val("s64", <<0, 0, 0, 5>>), Val("s32", <<0, 7>>)>>
    /\ Len(results) = 1
    /\ Len(calls) = 1
    /\ calls[1].args = <<(<<0, 7>>)>>
    /\ results[1].tag = "u64"

----------------------------------------------------------------------------
(* Properties of the converter (checked under SpecConv) *)

Extracts == {i \in DOMAIN convHist : convHist[i].op = "extract"}

\* C4 as stated: under every supported T, extracting a value whose tag is not
\* T's tag yields T's zero value, whatever the payload.
C4_MismatchYieldsZero ==
    \A i \in Extracts :
        (convT \in Types /\ convHist[i].val.tag # convT) =>
            convHist[i].native = ZeroOf(convT)

\* C4 amended: a tag mismatch yields T's zero value, except that extraction
\* under s64 accepts a u64-tagged value and yields its payload modulo 2^64
\* read as signed.
C4_MismatchYieldsZeroUnlessU64AsS64 ==
    \A i \in Extracts :
        LET val == convHist[i].val
            out == convHist[i].native
        IN (convT \in Types /\ val.tag # convT) =>
              IF convT = "s64" /\ val.tag = "u64"
              THEN /\ Len(out) = 4
                   /\ out[1] \in (0 - SignLimb)..(SignLimb - 1)
                   /\ (out[1] - val.v[1]) % LimbBase = 0
                   /\ \A k \in 2..4 : out[k] = val.v[k]
              ELSE out = ZeroOf(convT)

\* C4 witness: a u64-tagged value with the top bit set, extracted under s64.
C4_Witness ==
    /\ convT = "s64"
    /\ \E i \in Extracts :
          /\ convHist[i].val = Val("u64", <<32768, 0, 0, 1>>)
          /\ convHist[i].native = <<-32768, 0, 0, 1>>

\* C5: for every supported T and value v of T, wrap(v) carries T's tag and
\* v's payload, extracting it under T gives v back, and wrapping that again
\* gives the same typed value.
C5_WrapExtractRoundTrip ==
    \A i \in DOMAIN convHist :
        (convT \in Types /\ convHist[i].op = "wrap") =>
            /\ convHist[i].val.tag = convT
            /\ convHist[i].val.v = convHist[i].native
            /\ (i + 1 \in Extracts) =>
                  convHist[i + 1].native = convHist[i].native
            /\ (i + 1 \in Extracts /\ i + 2 \in DOMAIN convHist) =>
                  convHist[i + 2].val = convHist[i].val

\* C5 witness: the largest unsigned 64-bit value wrapped, extracted and
\* wrapped again.
C5_Witness ==
    /\ convT = "u64"
    /\ Len(convHist) >= 3
    /\ convHist[1].op = "wrap"
    /\ convHist[1].native = <<65535, 65535, 65535, 65535>>
    /\ convHist[2].op = "extract"
    /\ convHist[3].op = "wrap"
    /\ convHist[3].val = Val("u64", <<65535, 65535, 65535, 65535>>)

----------------------------------------------------------------------------
(* Properties of the export registry (checked under Spec) *)

AfterReturn == pc = "idle" /\ ncalls >= 1

\* C6 as stated: once the first call has returned, no call writes to
\* registry, descriptor or name storage again.
C6_NoWriteAfterFirstReturn == ~writesAfterFirst

\* C7 as stated: every name view handed out through a returned registry
\* stays valid and keeps naming the same characters.
C7_ViewsStayValid ==
    \A v \in views : Valid(v.ptr) /\ Deref(v.ptr) = v.text

IdPair(d) == <<d.m_interaface_id, d.m_interface_checksum>>

\* Descriptor i is the descriptor of the i-th supplied interface type.
InSuppliedOrder ==
    /\ m_linker_export_info.m_interface_array = IfArrPtr
    /\ m_linker_export_info.m_interface_count = K
    /\ Len(m_interface_export_info_array) = K
    /\ \A i \in 1..K :
          LET d == m_interface_export_info_array[i]
              info == InterfaceInfo(ifaceList[i])
          IN /\ Valid(d.m_interface_name)
             /\ Deref(d.m_interface_name) = info.name
             /\ d.m_interaface_id = info.id
             /\ d.m_interface_checksum = info.checksum
             /\ d.m_interface_type_hash = info.type_hash
             /\ d.m_member_function_array = FnArrPtr(ifaceList[i])

\* C8 as stated: a returned registry holds K descriptors in supplied order,
\* no two of them with the same (id, checksum) pair.
C8_OrderedAndUnique ==
    AfterReturn =>
        /\ InSuppliedOrder
        /\ \A i, j \in 1..K :
              i # j => IdPair(m_interface_export_info_array[i])
                         # IdPair(m_interface_export_info_array[j])

\* C8 amended: a returned registry holds K descriptors in supplied order, and
\* two of them have the same (id, checksum) pair exactly when the list names
\* the same interface type at both positions; the pairs are unique when the
\* supplied types are pairwise distinct.
C8_OrderedAndUniquePerType ==
    AfterReturn =>
        /\ InSuppliedOrder
        /\ \A i, j \in 1..K :
              (IdPair(m_interface_export_info_array[i])
                 = IdPair(m_interface_export_info_array[j]))
              <=> (ifaceList[i] = ifaceList[j])

\* C8 witness: a registry returned for two different interface types.
C8_Witness ==
    /\ AfterReturn
    /\ K = 2
    /\ ifaceList[1] # ifaceList[2]
    /\ m_linker_export_info.m_interface_count = 2

\* C9: the fill of an interface with N member functions leaves N function
\* descriptors in enumeration order, each with a non-empty export name, its
\* own id and checksum and a callback requiring 1 + parameter_count inputs;
\* whenever the lambda is about to write, the write index is below N.
C9_FunctionDescriptors ==
    /\ (pc = "enumerate" /\ enumerated < getMemberFunctionCount(cur.t)) =>
          function_index < getMemberFunctionCount(cur.t)
    /\ AfterReturn =>
          \A i \in 1..K :
             LET T == ifaceList[i]
                 fns == InterfaceInfo(T).functions
                 d == m_interface_export_info_array[i]
             IN /\ d.m_member_function_count = Len(fns)
                /\ Len(function_info_array[T]) = Len(fns)
                /\ \A j \in 1..Len(fns) :
                      LET fi == function_info_array[T][j] IN
                      /\ Valid(fi.m_function_name)
                      /\ Deref(fi.m_function_name) = fns[j].wit_func_name
                      /\ Deref(fi.m_function_name) # ""
                      /\ fi.m_function_id = fns[j].function_id
                      /\ fi.m_function_checksum = fns[j].function_checksum
                      /\ fi.m_host_callback = [func_ptr |-> fns[j].func_ptr]
                      /\ \A n \in 0..MaxArgs :
                            InsufficientArguments(fi.m_host_callback,
                                                  [x \in 1..n |-> InitSlot])
                            <=> (n < 1 + Len(fns[j].func_ptr.params))

\* C9 witness: a registry returned for a list holding the interface with two
\* member functions.
C9_Witness ==
    /\ AfterReturn
    /\ \E i \in 1..K :
          /\ ifaceList[i] = "IWindow"
          /\ m_interface_export_info_array[i].m_member_function_count = 2

\* C10: the registry a second (or later) call returns has the same content
\* as the one the first call returned.
C10_SecondCallSameContent ==
    (pc = "idle" /\ ncalls >= 2) => RegistryContent = firstContent

\* C10 witness: two calls have returned for a two-interface list.
C10_Witness ==
    /\ pc = "idle"
    /\ ncalls = 2
    /\ ifaceList = <<"IWindow", "IFile">>
    /\ firstContent.interface_count = 2

====
